---- MODULE Spec2Model ----
(***************************************************************************)
(* The OperatingSystemConfig actuator of the Garden Linux OS extension     *)
(* (pkg/controller/operatingsystemconfig/actuator.go) and the in-place     *)
(* update script it ships (pkg/gardenlinux/scripts/inplace-update.sh).     *)
(*                                                                         *)
(* Texts (scripts, drop-in contents, paths) are TLA+ strings, built by the *)
(* same concatenations as the Go code builds them; "\n" is the line break. *)
(* A Go nil / unset pointer is Nil, a set one is Some(v).                  *)
(***************************************************************************)
EXTENDS Naturals, Sequences, FiniteSets, TLC

VARIABLES
  templates,  \* the package-level script contents loaded once by init()
  cluster,    \* what the actuator's client reads: the referenced secret
  osc,        \* the OperatingSystemConfig the caller hands to the actuator
  last,       \* the latest completed actuator call and what it returned
  ref,        \* an earlier Reconcile call kept for comparison (history)
  sh          \* a bash process executing one of the generated scripts

vars == <<templates, cluster, osc, last, ref, sh>>

(***************************************************************************)
(* Bounds of the model.                                                    *)
(***************************************************************************)
MaxUnits == 2      \* longest osc.Spec.Units list
MaxFailures == 1   \* most external commands that fail in one script run
MaxArgs == 2       \* longest argument list the update script is started with

(***************************************************************************)
(* Optional values and string helpers.                                     *)
(***************************************************************************)
Nil == [isNil |-> TRUE]
Some(v) == [isNil |-> FALSE, val |-> v]

HasPrefix(s, p) == Len(s) >= Len(p) /\ SubSeq(s, 1, Len(p)) = p
HasSuffix(s, p) == Len(s) >= Len(p) /\ SubSeq(s, Len(s) - Len(p) + 1, Len(s)) = p
\* the positions at which p occurs in s
Occurrences(s, p) == {i \in 1..Len(s) : i + Len(p) - 1 <= Len(s) /\ SubSeq(s, i, i + Len(p) - 1) = p}
Contains(s, p) == Occurrences(s, p) # {}
MinOf(S) == CHOOSE m \in S : \A k \in S : m <= k

\* strings.Split(s, "\n"): the lines of a text
RECURSIVE SplitFrom(_, _, _)
SplitFrom(s, nl, from) ==
  LET later == {i \in nl : i >= from}
  IN  IF later = {} THEN <<SubSeq(s, from, Len(s))>>
      ELSE <<SubSeq(s, from, MinOf(later) - 1)>> \o SplitFrom(s, nl, MinOf(later) + 1)
Lines(s) == SplitFrom(s, Occurrences(s, "\n"), 1)

\* the concatenation of the texts f(1), ..., f(n)
RECURSIVE ConcatTo(_, _)
ConcatTo(f, n) == IF n = 0 THEN "" ELSE ConcatTo(f, n - 1) \o f[n]
ConcatAll(f) == ConcatTo(f, Len(f))

\* all sequences over S of length at most n
SeqsUpTo(S, n) == UNION {[1..k -> S] : k \in 0..n}

(***************************************************************************)
(* Constants of the packages the actuator imports.                         *)
(***************************************************************************)
OperatingSystemConfigPurposeProvision == "provision"
OperatingSystemConfigPurposeReconcile == "reconcile"
OSTypeMemoryOneGardenLinux == "memoryone-gardenlinux"
OSTypeGardenLinux == "gardenlinux"
ScriptLocation == "/opt/gardener/bin"
ScriptPermissions == "0755"

\* filepath.Join of a clean directory and a file name
Join(dir, name) == dir \o "/" \o name

(***************************************************************************)
(* The embedded script assets (gardenlinux.Templates).                     *)
(***************************************************************************)
ScriptInPlaceUpdateWithoutErrexit ==
     "#!/bin/bash\n"
  \o "\n"
  \o "# Check if a version argument is passed\n"
  \o "if [ \"$#\" -ne 1 ]; then\n"
  \o "    echo \"Usage: $0 <version>\"\n"
  \o "    exit 1\n"
  \o "fi\n"
  \o "\n"
  \o "VERSION=$1\n"
  \o "\n"
  \o "# Run the update with the specified version\n"
  \o "sudo gardenlinux-update \"$VERSION\"\n"
  \o "sudo reboot"

ScriptInPlaceUpdate ==
     "#!/bin/bash\n"
  \o "\n"
  \o "set -Eeuo pipefail\n"
  \o "\n"
  \o "# Check if a version argument is passed\n"
  \o "if [ \"$#\" -ne 1 ]; then\n"
  \o "    echo \"Usage: $0 <version>\"\n"
  \o "    exit 1\n"
  \o "fi\n"
  \o "\n"
  \o "VERSION=$1\n"
  \o "\n"
  \o "# Run the update with the specified version\n"
  \o "sudo gardenlinux-update \"$VERSION\"\n"
  \o "sudo reboot"
ScriptGFunctions == "#!/bin/bash\n# g_functions.sh\n"
ScriptKubeletCGroupDriver == "#!/bin/bash\n# kubelet_cgroup_driver.sh\n"
ScriptContainerdCGroupDriver == "#!/bin/bash\n# containerd_cgroup_driver.sh\n"

\* init(): the four reads of the template store; a failed read panics, so
\* the process only ever runs with all four loaded
LoadTemplates ==
  [ scriptContentInPlaceUpdate          |-> ScriptInPlaceUpdate,
    scriptContentGFunctions             |-> ScriptGFunctions,
    scriptContentKubeletCGroupDriver    |-> ScriptKubeletCGroupDriver,
    scriptContentContainerdCGroupDriver |-> ScriptContainerdCGroupDriver ]

(***************************************************************************)
(* Requests: the fields of the OperatingSystemConfig the actuator reads.   *)
(***************************************************************************)
Purposes == {OperatingSystemConfigPurposeProvision, OperatingSystemConfigPurposeReconcile, "bootstrap"}
OSTypes == {OSTypeGardenLinux, OSTypeMemoryOneGardenLinux}
OSVersions == {Nil, Some("1312.0"), Some("")}
UnitNames == {"foo.service", "bar.service"}
UnitLists == SeqsUpTo([Name : UnitNames], MaxUnits)
\* a file carries its content inline or refers to a secret of the cluster
InlineFile == [Path |-> "/etc/a.conf", Inline |-> Some("aW5saW5l"), SecretRef |-> Nil]
SecretFile == [Path |-> "/etc/b.key", Inline |-> Nil, SecretRef |-> Some("b-secret")]
FileLists == {<< >>, <<InlineFile>>, <<SecretFile>>}
\* what memoryone.Configuration decodes from the request's provider config:
\* an error, no configuration, or a configuration with optional fields
MemoryConfigs ==
  {[err |-> Some("decode provider config"), config |-> Nil], [err |-> Nil, config |-> Nil]}
  \cup {[err |-> Nil, config |-> Some([SystemMemory |-> sm, MemoryTopology |-> mt])] :
          sm \in {Nil, Some("4G")}, mt \in {Nil, Some("2,2")}}

Requests ==
  [ Purpose : Purposes, Type : OSTypes, OSVersion : OSVersions,
    Units : UnitLists, Files : FileLists, ProviderConfig : MemoryConfigs ]

\* the secret the client finds: absent, or one of two contents
ClusterStates == {"absent", "c2VjcmV0LTE=", "c2VjcmV0LTI="}

(***************************************************************************)
(* Collaborators.                                                          *)
(***************************************************************************)
\* operatingsystemconfig.FilesToDiskScript(ctx, a.client, namespace, files):
\* a shell fragment writing every file, its data inline or read through the
\* client; an error when a referenced secret cannot be read
FileData(file, cl) == IF file.Inline.isNil THEN cl ELSE file.Inline.val
FilesToDiskScript(cl, files) ==
  IF \E i \in 1..Len(files) : files[i].Inline.isNil /\ cl = "absent"
  THEN [script |-> "", err |-> Some("secret not found")]
  ELSE [script |-> ConcatAll([i \in 1..Len(files) |->
                     "\nwrite-file '" \o files[i].Path \o "' " \o FileData(files[i], cl)]),
        err |-> Nil]

\* operatingsystemconfig.UnitsToDiskScript(units): never fails
UnitsToDiskScript(units) ==
  ConcatAll([i \in 1..Len(units) |-> "\nwrite-unit '" \o units[i].Name \o "'"])

\* memoryone.Configuration(osc)
Configuration(o) == o.ProviderConfig

(***************************************************************************)
(* handleProvisionOSC and the memory-variant wrapper.                      *)
(***************************************************************************)
\* the enable+restart lines appended by the loop over osc.Spec.Units
UnitLine(name) ==
  "systemctl enable '" \o name \o "' && systemctl restart --no-block '" \o name \o "'\n"
UnitLines(units) == ConcatAll([i \in 1..Len(units) |-> UnitLine(units[i].Name)])

ScriptHead ==
     "#!/bin/bash\n"
  \o "if [ ! -s /etc/containerd/config.toml ]; then\n"
  \o "  mkdir -p /etc/containerd/\n"
  \o "  containerd config default > /etc/containerd/config.toml\n"
  \o "  chmod 0644 /etc/containerd/config.toml\n"
  \o "fi\n"
  \o "\n"
  \o "mkdir -p /etc/systemd/system/containerd.service.d\n"
  \o "cat <<EOF > /etc/systemd/system/containerd.service.d/11-exec_config.conf\n"
  \o "[Service]\n"
  \o "ExecStart=\n"
  \o "ExecStart=/usr/bin/containerd --config=/etc/containerd/config.toml\n"
  \o "EOF\n"
  \o "chmod 0644 /etc/systemd/system/containerd.service.d/11-exec_config.conf\n"

ScriptTailChained ==
     "\n"
  \o "grep -sq \"^nfsd$\" /etc/modules || echo \"nfsd\" >>/etc/modules\n"
  \o "modprobe nfsd\n"
  \o "nslookup $(hostname) && systemctl daemon-reload\n"
  \o "\n"
  \o "systemctl enable containerd && systemctl restart containerd\n"
  \o "systemctl enable docker && systemctl restart docker\n"

ScriptTail ==
     "\n"
  \o "grep -sq \"^nfsd$\" /etc/modules || echo \"nfsd\" >>/etc/modules\n"
  \o "modprobe nfsd\n"
  \o "nslookup $(hostname) || systemctl restart systemd-networkd\n"
  \o "\n"
  \o "systemctl daemon-reload\n"
  \o "systemctl enable containerd && systemctl restart containerd\n"
  \o "systemctl enable docker && systemctl restart docker\n"

ComposeScriptUnitsFirst(writeFilesToDiskScript, writeUnitsToDiskScript, units) ==
  ScriptHead \o writeUnitsToDiskScript \o "\n" \o writeFilesToDiskScript
    \o ScriptTail \o UnitLines(units)
\* the script assembled from the two rendered fragments and the units
ComposeScript(writeFilesToDiskScript, writeUnitsToDiskScript, units) ==
  ScriptHead \o writeFilesToDiskScript \o "\n" \o writeUnitsToDiskScript
    \o ScriptTail \o UnitLines(units)

EnvelopeHead ==
     "Content-Type: multipart/mixed; boundary=\"==BOUNDARY==\"\n"
  \o "MIME-Version: 1.0\n"
  \o "--==BOUNDARY==\n"
  \o "Content-Type: text/x-vsmp; section=vsmp"

SystemMemoryLineAlways(config) ==
  "\nsystem_memory=" \o (IF ~config.isNil /\ ~config.val.SystemMemory.isNil
                           THEN config.val.SystemMemory.val ELSE "")
SystemMemoryLine(config) ==
  IF ~config.isNil /\ ~config.val.SystemMemory.isNil
  THEN "\nsystem_memory=" \o config.val.SystemMemory.val ELSE ""

MemoryTopologyLine(config) ==
  IF ~config.isNil /\ ~config.val.MemoryTopology.isNil
  THEN "\nmem_topology=" \o config.val.MemoryTopology.val ELSE ""

wrapKeepsHeaderOnError(o, in) ==
  LET c == Configuration(o)
  IN  [out |-> IF ~c.err.isNil THEN EnvelopeHead
               ELSE EnvelopeHead \o SystemMemoryLine(c.config) \o MemoryTopologyLine(c.config)
                      \o "\n--==BOUNDARY==\nContent-Type: text/x-shellscript\n"
                      \o in \o "\n--==BOUNDARY==",
       err |-> c.err,
       visited |-> <<"wrapIntoMemoryOneHeaderAndFooter">>]
\* returns the envelope, the error, and the functions entered on the way
wrapIntoMemoryOneHeaderAndFooter(o, in) ==
  LET c == Configuration(o)
  IN  IF ~c.err.isNil
      THEN [out |-> "", err |-> c.err, visited |-> <<"wrapIntoMemoryOneHeaderAndFooter">>]
      ELSE [out |-> EnvelopeHead \o SystemMemoryLine(c.config) \o MemoryTopologyLine(c.config)
                      \o "\n--==BOUNDARY==\nContent-Type: text/x-shellscript\n"
                      \o in \o "\n--==BOUNDARY==",
            err |-> Nil,
            visited |-> <<"wrapIntoMemoryOneHeaderAndFooter">>]

IsMemoryOneAnyType(o) == o.Type # ""
\* osc.Spec.Type == memoryone.OSTypeMemoryOneGardenLinux
IsMemoryOne(o) == o.Type = OSTypeMemoryOneGardenLinux

handleProvisionOSC(o, cl) ==
  LET rendered == FilesToDiskScript(cl, o.Files)
      script == ComposeScript(rendered.script, UnitsToDiskScript(o.Units), o.Units)
  IN  IF ~rendered.err.isNil
      THEN [out |-> "", err |-> rendered.err, visited |-> <<"FilesToDiskScript">>]
      ELSE IF IsMemoryOne(o)
      THEN LET w == wrapIntoMemoryOneHeaderAndFooter(o, script)
           IN  [out |-> w.out, err |-> w.err,
                visited |-> <<"FilesToDiskScript", "UnitsToDiskScript">> \o w.visited]
      ELSE [out |-> script, err |-> Nil,
            visited |-> <<"FilesToDiskScript", "UnitsToDiskScript">>]

(***************************************************************************)
(* handleReconcileOSC.                                                     *)
(***************************************************************************)
ScriptFile(path, data) == [Path |-> path, Content |-> data, Permissions |-> ScriptPermissions]

\* ptr.Deref(osConfig.Spec.OSVersion, "")
Deref(p, def) == IF p.isNil THEN def ELSE p.val

DropInContentLegacyPath(scriptPath) == "[Service]\nExecStartPre=/opt/bin/cgroup_driver.sh\n"
DropInContent(scriptPath) == "[Service]\nExecStartPre=" \o scriptPath \o "\n"

CGroupDriverUnitWithoutHelper(name, helperPath, scriptPath) ==
  [ Name      |-> name,
    DropIns   |-> <<[Name |-> "10-configure-cgroup-driver.conf", Content |-> DropInContent(scriptPath)]>>,
    FilePaths |-> <<scriptPath>> ]
CGroupDriverUnit(name, helperPath, scriptPath) ==
  [ Name      |-> name,
    DropIns   |-> <<[Name |-> "10-configure-cgroup-driver.conf", Content |-> DropInContent(scriptPath)]>>,
    FilePaths |-> <<helperPath, scriptPath>> ]

handleReconcileOSC(o, tpl) ==
  LET filePathOSUpdateScript == Join(ScriptLocation, "inplace-update.sh")
      filePathFunctionsHelperScript == Join(ScriptLocation, "g_functions.sh")
      filePathKubeletCGroupDriverScript == Join(ScriptLocation, "kubelet_cgroup_driver.sh")
      filePathContainerdCGroupDriverScript == Join(ScriptLocation, "containerd_cgroup_driver.sh")
  IN  [ units |-> << CGroupDriverUnit("kubelet.service", filePathFunctionsHelperScript,
                                      filePathKubeletCGroupDriverScript),
                     CGroupDriverUnit("containerd.service", filePathFunctionsHelperScript,
                                      filePathContainerdCGroupDriverScript) >>,
        files |-> << ScriptFile(filePathOSUpdateScript, tpl.scriptContentInPlaceUpdate),
                     ScriptFile(filePathFunctionsHelperScript, tpl.scriptContentGFunctions),
                     ScriptFile(filePathKubeletCGroupDriverScript, tpl.scriptContentKubeletCGroupDriver),
                     ScriptFile(filePathContainerdCGroupDriverScript, tpl.scriptContentContainerdCGroupDriver) >>,
        inPlaceUpdateConfig |->
          [ OSUpdateCommand     |-> Some(filePathOSUpdateScript),
            OSUpdateCommandArgs |-> <<Deref(o.OSVersion, "")>> ],
        err |-> Nil ]

(***************************************************************************)
(* The actuator's entry points.  A result is the five values Reconcile     *)
(* returns, plus the functions the call entered.                           *)
(***************************************************************************)
UnknownPurposeErrorWithoutValue(purpose) == "unknown purpose"
UnknownPurposeError(purpose) == "unknown purpose: " \o purpose

Reconcile(o, cl, tpl) ==
  IF o.Purpose = OperatingSystemConfigPurposeProvision
  THEN LET p == handleProvisionOSC(o, cl)
       IN  [ userData |-> Some(p.out), units |-> Nil, files |-> Nil,
             inPlaceUpdateConfig |-> Nil, err |-> p.err,
             visited |-> <<"handleProvisionOSC">> \o p.visited ]
  ELSE IF o.Purpose = OperatingSystemConfigPurposeReconcile
  THEN LET r == handleReconcileOSC(o, tpl)
       IN  [ userData |-> Nil, units |-> Some(r.units), files |-> Some(r.files),
             inPlaceUpdateConfig |-> Some(r.inPlaceUpdateConfig), err |-> r.err,
             visited |-> <<"handleReconcileOSC">> ]
  ELSE [ userData |-> Nil, units |-> Nil, files |-> Nil, inPlaceUpdateConfig |-> Nil,
         err |-> Some(UnknownPurposeError(o.Purpose)), visited |-> << >> ]

RestoreReconcileArtifacts(o, cl, tpl) ==
  Reconcile([o EXCEPT !.Purpose = OperatingSystemConfigPurposeReconcile], cl, tpl)
Restore(o, cl, tpl) == Reconcile(o, cl, tpl)

\* Delete returns nil; Migrate and ForceDelete return what Delete returns
Delete(o) == [err |-> Nil]
Migrate(o) == Delete(o)
ForceDelete(o) == Delete(o)

(***************************************************************************)
(* The actuator as a state machine.  A call reads its request, the         *)
(* template store and, through FilesToDiskScript, the cluster; it writes   *)
(* nothing but its return values.  The one read of shared state that can   *)
(* change is the client's, at the start of handleProvisionOSC, so a call   *)
(* takes effect at that read and concurrent calls are interleavings of     *)
(* these steps.                                                            *)
(***************************************************************************)
NoCall == [op |-> "none"]
NoShell == [status |-> "none"]

Init ==
  /\ templates = LoadTemplates
  /\ cluster \in ClusterStates
  /\ osc \in Requests
  /\ last = NoCall
  /\ ref = Nil
  /\ sh = NoShell

CallReconcile ==
  /\ last' = [op |-> "Reconcile", osc |-> osc, cluster |-> cluster, out |-> Reconcile(osc, cluster, templates)]
  /\ UNCHANGED <<templates, cluster, osc, ref, sh>>

CallRestore ==
  /\ last' = [op |-> "Restore", osc |-> osc, cluster |-> cluster, out |-> Restore(osc, cluster, templates)]
  /\ UNCHANGED <<templates, cluster, osc, ref, sh>>

CallDelete ==
  /\ last' = [op |-> "Delete", out |-> Delete(osc)]
  /\ UNCHANGED <<templates, cluster, osc, ref, sh>>

CallMigrate ==
  /\ last' = [op |-> "Migrate", out |-> Migrate(osc)]
  /\ UNCHANGED <<templates, cluster, osc, ref, sh>>

CallForceDelete ==
  /\ last' = [op |-> "ForceDelete", out |-> ForceDelete(osc)]
  /\ UNCHANGED <<templates, cluster, osc, ref, sh>>

\* the environment: the referenced secret is created, rotated or deleted
ClusterChange ==
  /\ \E c \in ClusterStates \ {cluster} : cluster' = c
  /\ UNCHANGED <<templates, osc, last, ref, sh>>

Next ==
  \/ CallReconcile
  \/ CallRestore
  \/ CallDelete
  \/ CallMigrate
  \/ CallForceDelete
  \/ ClusterChange

Spec == Init /\ [][Next]_vars

(***************************************************************************)
(* Reading a result: what the claims speak about.                          *)
(***************************************************************************)
Returned == last.op \in {"Reconcile", "Restore"}
Result == last.out
Request == last.osc
Succeeded == Returned /\ Result.err.isNil
Entered(fn) == \E i \in 1..Len(Result.visited) : Result.visited[i] = fn
AllNil(r) == r.units = Nil /\ r.files = Nil /\ r.inPlaceUpdateConfig = Nil

\* the paths of the Files of a result
FilePathsOf(files) == {files[i].Path : i \in 1..Len(files)}
\* the lines of a text that start with a key, without the key
ValuesOf(text, key) ==
  LET L == Lines(text)
  IN  {SubSeq(L[i], Len(key) + 1, Len(L[i])) : i \in {j \in 1..Len(L) : HasPrefix(L[j], key)}}
\* how many lines of a text start with a key
CountLines(text, key) ==
  LET L == Lines(text) IN Cardinality({i \in 1..Len(L) : HasPrefix(L[i], key)})
\* the indexes of the lines of L equal to line
IndexesOf(L, line) == {i \in 1..Len(L) : L[i] = line}

(***************************************************************************)
(* C1.  A request whose purpose is neither Provision nor Reconcile makes   *)
(* Reconcile and Restore return an error that carries the purpose, and nil *)
(* script bytes, units, files and in-place-update config.                  *)
(***************************************************************************)
UnknownPurpose(o) ==
  o.Purpose \notin {OperatingSystemConfigPurposeProvision, OperatingSystemConfigPurposeReconcile}

C1_UnknownPurposeFails ==
  (Returned /\ UnknownPurpose(Request)) =>
     /\ ~Result.err.isNil
     /\ Result.err.val = "unknown purpose: " \o Request.Purpose
     /\ Result.userData = Nil
     /\ AllNil(Result)

C1_Witness ==
  /\ last.op = "Restore"
  /\ Request.Purpose = "bootstrap"
  /\ ~Result.err.isNil

(***************************************************************************)
(* C2.  Referential integrity of a result: the update command, every path  *)
(* in a Unit's FilePaths and every script named by an ExecStartPre line of *)
(* a DropIn is the path of a File of the same result.                      *)
(***************************************************************************)
PathsOfResult(r) == IF r.files.isNil THEN {} ELSE FilePathsOf(r.files.val)

C2_ReferentialIntegrity ==
  Returned =>
    LET paths == PathsOfResult(Result)
    IN  /\ ~Result.inPlaceUpdateConfig.isNil =>
             /\ ~Result.inPlaceUpdateConfig.val.OSUpdateCommand.isNil
             /\ Result.inPlaceUpdateConfig.val.OSUpdateCommand.val \in paths
        /\ ~Result.units.isNil =>
             \A i \in 1..Len(Result.units.val) :
               LET u == Result.units.val[i]
               IN  /\ \A k \in 1..Len(u.FilePaths) : u.FilePaths[k] \in paths
                   /\ \A d \in 1..Len(u.DropIns) :
                        ValuesOf(u.DropIns[d].Content, "ExecStartPre=") \subseteq paths

C2_Witness ==
  /\ last.op = "Reconcile"
  /\ ~Result.units.isNil
  /\ \E i \in 1..Len(Result.units.val) :
       ValuesOf(Result.units.val[i].DropIns[1].Content, "ExecStartPre=") # {}
  /\ ~Result.inPlaceUpdateConfig.isNil

(***************************************************************************)
(* C3.  A request with purpose Reconcile always succeeds, with nil script  *)
(* bytes, the four Files (update, helper, kubelet and containerd scripts,  *)
(* distinct paths under the script root), the two Units kubelet.service    *)
(* and containerd.service (one drop-in 10-configure-cgroup-driver.conf and *)
(* FilePaths = helper script, own script) and an update config whose       *)
(* command is the update script and whose one argument is the osVersion,   *)
(* or "" when it is unset.                                                 *)
(***************************************************************************)
ExpectedScriptNames ==
  <<"inplace-update.sh", "g_functions.sh", "kubelet_cgroup_driver.sh", "containerd_cgroup_driver.sh">>
ExpectedUnitNames == <<"kubelet.service", "containerd.service">>

C3_ReconcileArtifacts ==
  (Returned /\ Request.Purpose = OperatingSystemConfigPurposeReconcile) =>
     /\ Result.err.isNil
     /\ Result.userData = Nil
     /\ ~Result.files.isNil /\ ~Result.units.isNil /\ ~Result.inPlaceUpdateConfig.isNil
     /\ LET files == Result.files.val
            units == Result.units.val
            cfg == Result.inPlaceUpdateConfig.val
        IN  /\ Len(files) = 4
            /\ \A i \in 1..4 : files[i].Path = ScriptLocation \o "/" \o ExpectedScriptNames[i]
            /\ Cardinality(FilePathsOf(files)) = 4
            /\ \A i \in 1..4 : HasPrefix(files[i].Path, ScriptLocation \o "/")
            /\ files[1].Content = templates.scriptContentInPlaceUpdate
            /\ Len(units) = 2
            /\ \A i \in 1..2 :
                 /\ units[i].Name = ExpectedUnitNames[i]
                 /\ Len(units[i].DropIns) = 1
                 /\ units[i].DropIns[1].Name = "10-configure-cgroup-driver.conf"
                 /\ units[i].FilePaths = <<files[2].Path, files[i + 2].Path>>
            /\ cfg.OSUpdateCommand = Some(files[1].Path)
            /\ Len(cfg.OSUpdateCommandArgs) = 1
            /\ cfg.OSUpdateCommandArgs[1] =
                 (IF Request.OSVersion.isNil THEN "" ELSE Request.OSVersion.val)

C3_Witness ==
  /\ last.op = "Reconcile"
  /\ Request.Purpose = OperatingSystemConfigPurposeReconcile
  /\ Request.OSVersion = Some("1312.0")
  /\ Request.Units # << >>
  /\ Result.inPlaceUpdateConfig.val.OSUpdateCommandArgs = <<"1312.0">>

(***************************************************************************)
(* Reading a Provision result.                                             *)
(***************************************************************************)
BoundaryLine == "--==BOUNDARY=="
IsProvision == Returned /\ Request.Purpose = OperatingSystemConfigPurposeProvision
UserData == Result.userData.val
\* the request's fields as the wrapper receives them
ConfigOf(o) == o.ProviderConfig.config
HasSystemMemory(o) == ~ConfigOf(o).isNil /\ ~ConfigOf(o).val.SystemMemory.isNil
HasMemoryTopology(o) == ~ConfigOf(o).isNil /\ ~ConfigOf(o).val.MemoryTopology.isNil
\* lines a..b of L joined by line breaks
RECURSIVE JoinLines(_, _, _)
JoinLines(L, a, b) ==
  IF a > b THEN "" ELSE IF a = b THEN L[a] ELSE L[a] \o "\n" \o JoinLines(L, a + 1, b)
\* the parts of a multipart text: the lines between consecutive boundaries
PartBetween(L, b1, b2) == SubSeq(L, b1 + 1, b2 - 1)
\* the script a Provision result hands to the machine: the raw script, or
\* the text/x-shellscript part of the envelope
ShellLines(text) ==
  LET L == Lines(text)
      bs == IndexesOf(L, BoundaryLine)
  IN  IF bs = {} THEN L
      ELSE LET hs == IndexesOf(L, "Content-Type: text/x-shellscript")
           IN  SubSeq(L, MinOf(hs) + 1, Len(L) - 1)
\* the raw script the same request yields for the plain OS type
PlainScript(o, cl, tpl) == Reconcile([o EXCEPT !.Type = OSTypeGardenLinux], cl, tpl).userData.val

(***************************************************************************)
(* C5.  An envelope holds no system_memory= line when systemMemory is      *)
(* absent and exactly one, with the exact value, when it is present; the   *)
(* same for mem_topology= and memoryTopology.                              *)
(***************************************************************************)
Wrapped == IsProvision /\ Succeeded /\ Entered("wrapIntoMemoryOneHeaderAndFooter")

C5_MemoryLines ==
  Wrapped =>
    /\ IF HasSystemMemory(Request)
       THEN /\ CountLines(UserData, "system_memory=") = 1
            /\ ValuesOf(UserData, "system_memory=") = {ConfigOf(Request).val.SystemMemory.val}
       ELSE CountLines(UserData, "system_memory=") = 0
    /\ IF HasMemoryTopology(Request)
       THEN /\ CountLines(UserData, "mem_topology=") = 1
            /\ ValuesOf(UserData, "mem_topology=") = {ConfigOf(Request).val.MemoryTopology.val}
       ELSE CountLines(UserData, "mem_topology=") = 0

C5_Witness ==
  /\ Wrapped
  /\ HasSystemMemory(Request) /\ ~HasMemoryTopology(Request)
  /\ Request.Units # << >>
  /\ Request.Files # << >>
  /\ CountLines(UserData, "system_memory=4G") = 1

(***************************************************************************)
(* C6.  A Provision result carries script bytes only.  When it succeeds,   *)
(* the output of any OS type but the memory variant is the raw script,     *)
(* starting #!/bin/bash, with no envelope; the output of the memory        *)
(* variant is the envelope: its first line the multipart Content-Type, a   *)
(* key/value part, then a shell-script part holding the raw script         *)
(* verbatim.  The wrapper is entered only for the memory variant.          *)
(***************************************************************************)
IsEnvelopeOf(text, script) ==
  LET L == Lines(text)
      bs == IndexesOf(L, BoundaryLine)
  IN  /\ L[1] = "Content-Type: multipart/mixed; boundary=\"==BOUNDARY==\""
      /\ Cardinality(bs) = 3
      /\ Len(L) \in bs
      /\ \E b1, b2 \in bs :
           /\ b1 < b2 /\ b2 < Len(L)
           /\ PartBetween(L, b1, b2)[1] = "Content-Type: text/x-vsmp; section=vsmp"
           /\ \A i \in 2..Len(PartBetween(L, b1, b2)) :
                \/ HasPrefix(PartBetween(L, b1, b2)[i], "system_memory=")
                \/ HasPrefix(PartBetween(L, b1, b2)[i], "mem_topology=")
           /\ PartBetween(L, b2, Len(L))[1] = "Content-Type: text/x-shellscript"
           /\ JoinLines(L, b2 + 2, Len(L) - 1) = script

C6_ProvisionOutput ==
  IsProvision =>
    /\ ~Result.userData.isNil
    /\ AllNil(Result)
    /\ Entered("wrapIntoMemoryOneHeaderAndFooter") => Request.Type = OSTypeMemoryOneGardenLinux
    /\ Succeeded =>
         IF Request.Type = OSTypeMemoryOneGardenLinux
         THEN /\ Entered("wrapIntoMemoryOneHeaderAndFooter")
              /\ IsEnvelopeOf(UserData, PlainScript(Request, last.cluster, templates))
         ELSE /\ HasPrefix(UserData, "#!/bin/bash\n")
              /\ ~Contains(UserData, "==BOUNDARY==")
              /\ ~Contains(UserData, "Content-Type:")

C6_Witness ==
  /\ IsProvision /\ Succeeded
  /\ Request.Type = OSTypeMemoryOneGardenLinux
  /\ Request.Units # << >>
  /\ HasPrefix(UserData, "Content-Type: multipart/mixed")
  /\ Contains(UserData, "#!/bin/bash\n")

(***************************************************************************)
(* C7.  The provisioning script is a fixed-order concatenation: the guarded*)
(* seeding of the containerd config, the containerd drop-in, the file-write*)
(* fragment and then the unit-write fragment (both verbatim), the nfsd     *)
(* module, the network self-check, daemon-reload with enable+restart of    *)
(* containerd and docker, and last one enable+restart line per declared    *)
(* unit, in input order, duplicates included.                              *)
(***************************************************************************)
FixedStatements ==
  << "#!/bin/bash",
     "if [ ! -s /etc/containerd/config.toml ]; then",
     "  mkdir -p /etc/containerd/",
     "  containerd config default > /etc/containerd/config.toml",
     "  chmod 0644 /etc/containerd/config.toml",
     "fi",
     "mkdir -p /etc/systemd/system/containerd.service.d",
     "cat <<EOF > /etc/systemd/system/containerd.service.d/11-exec_config.conf",
     "[Service]",
     "ExecStart=",
     "ExecStart=/usr/bin/containerd --config=/etc/containerd/config.toml",
     "EOF",
     "chmod 0644 /etc/systemd/system/containerd.service.d/11-exec_config.conf",
     "grep -sq \"^nfsd$\" /etc/modules || echo \"nfsd\" >>/etc/modules",
     "modprobe nfsd",
     "nslookup $(hostname) || systemctl restart systemd-networkd",
     "systemctl daemon-reload",
     "systemctl enable containerd && systemctl restart containerd",
     "systemctl enable docker && systemctl restart docker" >>
\* the statement that ends the drop-in and the one that starts the nfsd step
LastBeforeFragments == "chmod 0644 /etc/systemd/system/containerd.service.d/11-exec_config.conf"
FirstAfterFragments == "grep -sq \"^nfsd$\" /etc/modules || echo \"nfsd\" >>/etc/modules"

ExpectedUnitLine(name) ==
  "systemctl enable '" \o name \o "' && systemctl restart --no-block '" \o name \o "'"

\* the line at which the one occurrence of a fixed statement stands
At(L, k) == MinOf(IndexesOf(L, FixedStatements[k]))

ScriptInOrder(L, o, cl) ==
  LET n == Len(o.Units)
      nFixed == Len(FixedStatements)
      filesFragment == FilesToDiskScript(cl, o.Files).script
      unitsFragment == UnitsToDiskScript(o.Units)
  IN  /\ \A k \in 1..nFixed : Cardinality(IndexesOf(L, FixedStatements[k])) = 1
      /\ At(L, 1) = 1
      /\ \A k \in 1..(nFixed - 1) : At(L, k) < At(L, k + 1)
      \* between the drop-in and the nfsd step: the two fragments, verbatim
      /\ JoinLines(L, MinOf(IndexesOf(L, LastBeforeFragments)) + 1,
                      MinOf(IndexesOf(L, FirstAfterFragments)) - 1)
           = filesFragment \o "\n" \o unitsFragment
      \* after the last fixed statement: one line per unit, then the end
      /\ Len(L) = At(L, nFixed) + n + 1
      /\ L[Len(L)] = ""
      /\ \A i \in 1..n : L[At(L, nFixed) + i] = ExpectedUnitLine(o.Units[i].Name)
      /\ Cardinality({i \in 1..Len(L) : HasPrefix(L[i], "systemctl enable '")}) = n

C7_ScriptOrder ==
  (IsProvision /\ Succeeded) => ScriptInOrder(ShellLines(UserData), Request, last.cluster)

C7_Witness ==
  /\ IsProvision /\ Succeeded
  /\ Len(Request.Units) = 2
  /\ Request.Units[1] = Request.Units[2]
  /\ Request.Files # << >>
  /\ CountLines(UserData, "systemctl enable 'foo.service'") = 2

(***************************************************************************)
(* C8.  On the Provision path an error of a collaborator is returned as it *)
(* is, with an empty script and nil units, files and update config: the    *)
(* renderer's error, after which the wrapper is not entered, and the       *)
(* error of deriving the memory-variant configuration.  No script comes    *)
(* with an error.                                                          *)
(***************************************************************************)
RenderFails(o, cl) == \E i \in 1..Len(o.Files) : ~o.Files[i].SecretRef.isNil /\ cl = "absent"
ConfigFails(o) == ~o.ProviderConfig.err.isNil

C8_ErrorsPropagate ==
  IsProvision =>
    /\ RenderFails(Request, last.cluster) =>
         /\ Result.err = Some("secret not found")
         /\ ~Entered("wrapIntoMemoryOneHeaderAndFooter")
    /\ (~RenderFails(Request, last.cluster) /\ Request.Type = OSTypeMemoryOneGardenLinux
          /\ ConfigFails(Request)) =>
         Result.err = Request.ProviderConfig.err
    /\ ~Result.err.isNil => (Result.userData = Some("") /\ AllNil(Result))
    /\ Result.err.isNil => UserData # ""

C8_Witness ==
  /\ IsProvision
  /\ Request.Type = OSTypeMemoryOneGardenLinux
  /\ \/ RenderFails(Request, last.cluster) /\ ~ConfigFails(Request)
     \/ ~RenderFails(Request, last.cluster) /\ ConfigFails(Request)
  /\ ~Result.err.isNil

(***************************************************************************)
(* The actuator called again and again: a Reconcile call may be kept as    *)
(* the earlier call to compare with.                                       *)
(***************************************************************************)
CallReconcileKept ==
  /\ ref = Nil
  /\ last' = [op |-> "Reconcile", osc |-> osc, cluster |-> cluster, out |-> Reconcile(osc, cluster, templates)]
  /\ ref' = Some([osc |-> osc, cluster |-> cluster, out |-> Reconcile(osc, cluster, templates)])
  /\ UNCHANGED <<templates, cluster, osc, sh>>

NextHistory ==
  \/ CallReconcile
  \/ CallReconcileKept
  \/ CallRestore
  \/ CallDelete
  \/ CallMigrate
  \/ CallForceDelete
  \/ ClusterChange

SpecHistory == Init /\ [][NextHistory]_vars

(***************************************************************************)
(* C4.  Original statement: after any calls of Reconcile, Restore, Delete, *)
(* Migrate and ForceDelete, a Reconcile or Restore call returns the very   *)
(* output of any earlier Reconcile call made with the same request.        *)
(***************************************************************************)
SameRequestAgain == Returned /\ ~ref.isNil /\ Request = ref.val.osc

C4_SameRequestSameOutput ==
  SameRequestAgain => Result = ref.val.out

(***************************************************************************)
(* C4.  As amended: Delete, Migrate and ForceDelete return success, the    *)
(* template store stays as loaded, and a Reconcile or Restore call returns *)
(* the very output of any earlier Reconcile call made with the same        *)
(* request, provided the purpose is not Provision or the file renderer,    *)
(* which reads the cluster, gave both calls the same result.               *)
(***************************************************************************)
SameRendering ==
  FilesToDiskScript(last.cluster, Request.Files) = FilesToDiskScript(ref.val.cluster, Request.Files)

C4_Idempotent ==
  /\ templates = LoadTemplates
  /\ last.op \in {"Delete", "Migrate", "ForceDelete"} => last.out.err.isNil
  /\ (SameRequestAgain
        /\ (Request.Purpose # OperatingSystemConfigPurposeProvision \/ SameRendering))
       => Result = ref.val.out

C4_Witness ==
  /\ SameRequestAgain
  /\ last.op = "Restore"
  /\ Request.Purpose = OperatingSystemConfigPurposeProvision
  /\ Request.Files = <<SecretFile>>
  /\ last.cluster = ref.val.cluster
  /\ cluster # last.cluster
  /\ Result.err.isNil
  /\ Result = ref.val.out

(***************************************************************************)
(* bash executing a generated script, line by line.  Only the constructs   *)
(* the two scripts use are read: comments, if ...; then / fi, a command    *)
(* with a here-document, a && b, a || b, set, exit, an assignment, and     *)
(* simple commands.  An external command ends with status 0 or 1, as the   *)
(* machine decides; echo succeeds.  With errexit (set -e) a failed command *)
(* ends the shell unless it is the condition of an if or stands before the *)
(* last && or || of its list.                                              *)
(***************************************************************************)
Digits == <<"0", "1", "2", "3", "4", "5", "6", "7", "8", "9">>
IsDigit(w) == \E d \in 1..Len(Digits) : Digits[d] = w
DigitValue(w) == (CHOOSE d \in 1..Len(Digits) : Digits[d] = w) - 1

RECURSIVE TrimLeft(_)
TrimLeft(s) == IF HasPrefix(s, " ") THEN TrimLeft(SubSeq(s, 2, Len(s))) ELSE s
Words(s) == SplitFrom(s, Occurrences(s, " "), 1)
Before(s, sep) == SubSeq(s, 1, MinOf(Occurrences(s, sep)) - 1)
After(s, sep) == SubSeq(s, MinOf(Occurrences(s, sep)) + Len(sep), Len(s))

\* what a line is
IsBlankOrComment(l) == l = "" \/ HasPrefix(l, "#")
IsIf(l) == HasPrefix(l, "if ") /\ HasSuffix(l, "; then")
IfCondition(l) == SubSeq(l, 4, Len(l) - 6)
IsFi(l) == l = "fi"
IsHereDoc(l) == Contains(l, " <<")
HereDocDelimiter(l) == Words(After(l, " <<"))[1]
IsOrList(l) == Contains(l, " || ")
IsAndList(l) == Contains(l, " && ")
IsList(l) == IsOrList(l) \/ IsAndList(l)
ListOperator(l) == IF IsOrList(l) THEN " || " ELSE " && "
IsSet(l) == HasPrefix(l, "set ")
IsExit(l) == HasPrefix(l, "exit ")
IsAssignment(l) == Contains(Words(l)[1], "=") /\ Len(Words(l)) = 1
\* the construct a line is read as
Kind(l) ==
  IF IsBlankOrComment(l) \/ IsFi(l) THEN "skip"
  ELSE IF IsIf(l) THEN "if"
  ELSE IF IsHereDoc(l) THEN "heredoc"
  ELSE IF IsList(l) THEN "list"
  ELSE IF IsSet(l) THEN "set"
  ELSE IF IsExit(l) THEN "exit"
  ELSE IF IsAssignment(l) THEN "assignment"
  ELSE "simple"

\* a line as bash reads it: its construct, its commands and their words
Statement(line) ==
  LET l == TrimLeft(line)
      k == Kind(l)
      first == IF k = "if" THEN IfCondition(l)
               ELSE IF k = "list" THEN Before(l, ListOperator(l))
               ELSE l
      second == IF k = "list" THEN After(l, ListOperator(l)) ELSE ""
  IN  [ kind |-> k, text |-> l,
        first |-> first, firstWords |-> Words(first),
        second |-> second, secondWords |-> Words(second),
        orList |-> k = "list" /\ IsOrList(l),
        delimiter |-> IF k = "heredoc" THEN HereDocDelimiter(l) ELSE "" ]
Program(lines) == [i \in 1..Len(lines) |-> Statement(lines[i])]

\* parameter expansion of one word: "$NAME", $NAME, $1, or the word itself
ParameterOf(w) ==
  IF HasPrefix(w, "\"$") /\ HasSuffix(w, "\"") THEN Some(SubSeq(w, 3, Len(w) - 1))
  ELSE IF HasPrefix(w, "$") THEN Some(SubSeq(w, 2, Len(w)))
  ELSE Nil
ValueOf(name, p) ==
  IF IsDigit(name)
  THEN (IF DigitValue(name) \in 1..Len(p.argv) THEN Some(p.argv[DigitValue(name)]) ELSE Nil)
  ELSE (IF name \in DOMAIN p.vars THEN Some(p.vars[name]) ELSE Nil)
ExpandWord(w, p) ==
  IF ParameterOf(w).isNil THEN w
  ELSE Deref(ValueOf(ParameterOf(w).val, p), "")
\* the words of a command after expansion: an unquoted parameter that
\* expands to nothing leaves no word
RECURSIVE ExpandFrom(_, _, _)
ExpandFrom(words, p, i) ==
  IF i > Len(words) THEN << >>
  ELSE IF HasPrefix(words[i], "$") /\ ExpandWord(words[i], p) = "" THEN ExpandFrom(words, p, i + 1)
  ELSE <<ExpandWord(words[i], p)>> \o ExpandFrom(words, p, i + 1)
Expand(words, p) == ExpandFrom(words, p, 1)

\* the statuses a command can end with
IsArgCountTest(w) == Len(w) = 5 /\ w[1] = "[" /\ w[2] = "\"$#\"" /\ w[3] = "-ne" /\ IsDigit(w[4])
TestStatuses(w, p) ==
  IF IsArgCountTest(w)
  THEN {IF Len(p.argv) # DigitValue(w[4]) THEN 0 ELSE 1}
  ELSE {0, 1}
CommandStatuses(w, p) ==
  IF w[1] = "echo" THEN {0}
  ELSE IF p.failures < MaxFailures THEN {0, 1} ELSE {0}

Boot(lines, argv, origin) ==
  [ status |-> "running", prog |-> Program(lines), origin |-> origin, argv |-> argv,
    pc |-> 1, second |-> FALSE, errexit |-> FALSE, nounset |-> FALSE, vars |-> << >>,
    trace |-> << >>, lastStatus |-> 0, failures |-> 0, code |-> 0 ]

Running == sh.status = "running" /\ sh.pc <= Len(sh.prog)
Stmt == sh.prog[sh.pc]
\* the process after a command of the current line ended with status st
Ran(p, cmd, words, st) ==
  [p EXCEPT !.trace = Append(@, [line |-> p.pc, cmd |-> cmd, args |-> Expand(words, p), status |-> st]),
            !.lastStatus = st,
            !.failures = IF st = 0 \/ words[1] = "[" THEN @ ELSE @ + 1]
Exited(p, code) == [p EXCEPT !.status = "exited", !.code = code]
\* after a command that errexit watches
Checked(p, st) == IF st # 0 /\ p.errexit THEN Exited(p, st) ELSE [p EXCEPT !.pc = @ + 1, !.second = FALSE]
\* the line after the next line that reads stop
PastNext(p, stop) == MinOf({i \in (p.pc + 1)..Len(p.prog) : p.prog[i].text = stop}) + 1

ShSkip ==
  /\ Running /\ Stmt.kind = "skip"
  /\ sh' = [sh EXCEPT !.pc = @ + 1]
  /\ UNCHANGED <<templates, cluster, osc, last, ref>>

ShIf ==
  /\ Running /\ Stmt.kind = "if"
  /\ \E st \in TestStatuses(Stmt.firstWords, sh) :
       sh' = [Ran(sh, Stmt.first, Stmt.firstWords, st) EXCEPT
                !.pc = IF st = 0 THEN sh.pc + 1 ELSE PastNext(sh, "fi")]
  /\ UNCHANGED <<templates, cluster, osc, last, ref>>

ShHereDoc ==
  /\ Running /\ Stmt.kind = "heredoc"
  /\ \E st \in CommandStatuses(Stmt.firstWords, sh) :
       sh' = IF st # 0 /\ sh.errexit THEN Exited(Ran(sh, Stmt.first, Stmt.firstWords, st), st)
             ELSE [Ran(sh, Stmt.first, Stmt.firstWords, st) EXCEPT !.pc = PastNext(sh, Stmt.delimiter)]
  /\ UNCHANGED <<templates, cluster, osc, last, ref>>

ShListFirst ==
  /\ Running /\ Stmt.kind = "list" /\ ~sh.second
  /\ \E st \in CommandStatuses(Stmt.firstWords, sh) :
       LET runsSecond == IF Stmt.orList THEN st # 0 ELSE st = 0
       IN  sh' = [Ran(sh, Stmt.first, Stmt.firstWords, st) EXCEPT
                    !.second = runsSecond,
                    !.pc = IF runsSecond THEN @ ELSE @ + 1]
  /\ UNCHANGED <<templates, cluster, osc, last, ref>>

ShListSecond ==
  /\ Running /\ Stmt.kind = "list" /\ sh.second
  /\ \E st \in CommandStatuses(Stmt.secondWords, sh) :
       sh' = Checked(Ran(sh, Stmt.second, Stmt.secondWords, st), st)
  /\ UNCHANGED <<templates, cluster, osc, last, ref>>

ShSimple ==
  /\ Running /\ Stmt.kind = "simple"
  /\ \E st \in CommandStatuses(Stmt.firstWords, sh) :
       sh' = Checked(Ran(sh, Stmt.first, Stmt.firstWords, st), st)
  /\ UNCHANGED <<templates, cluster, osc, last, ref>>

ShSet ==
  /\ Running /\ Stmt.kind = "set"
  /\ LET flags == Stmt.firstWords[2]
     IN  sh' = [sh EXCEPT !.pc = @ + 1,
                          !.lastStatus = 0,
                          !.errexit = @ \/ (HasPrefix(flags, "-") /\ Contains(flags, "e")),
                          !.nounset = @ \/ (HasPrefix(flags, "-") /\ Contains(flags, "u"))]
  /\ UNCHANGED <<templates, cluster, osc, last, ref>>

ShExit ==
  /\ Running /\ Stmt.kind = "exit"
  /\ sh' = Exited(sh, DigitValue(Stmt.firstWords[2]))
  /\ UNCHANGED <<templates, cluster, osc, last, ref>>

ShAssign ==
  /\ Running /\ Stmt.kind = "assignment"
  /\ LET name == Before(Stmt.text, "=")
         word == After(Stmt.text, "=")
         unset == ~ParameterOf(word).isNil /\ ValueOf(ParameterOf(word).val, sh).isNil
     IN  sh' = IF unset /\ sh.nounset THEN Exited(sh, 1)
               ELSE [sh EXCEPT !.pc = @ + 1, !.lastStatus = 0,
                               !.vars = (name :> ExpandWord(word, sh)) @@ @]
  /\ UNCHANGED <<templates, cluster, osc, last, ref>>

\* the end of the script: the shell exits with the last command's status
ShEnd ==
  /\ sh.status = "running" /\ sh.pc > Len(sh.prog)
  /\ sh' = Exited(sh, sh.lastStatus)
  /\ UNCHANGED <<templates, cluster, osc, last, ref>>

(***************************************************************************)
(* A fresh machine executes the user data of a successful Provision call.  *)
(***************************************************************************)
NoProviderConfig == [err |-> Nil, config |-> Nil]
BootRequests ==
  {o \in Requests : /\ o.Purpose = OperatingSystemConfigPurposeProvision
                    /\ o.OSVersion = Nil
                    /\ o.ProviderConfig = NoProviderConfig}

InitProvisionRun ==
  /\ templates = LoadTemplates
  /\ cluster \in ClusterStates \ {"absent"}
  /\ osc \in BootRequests
  /\ last = [op |-> "Reconcile", osc |-> osc, cluster |-> cluster, out |-> Reconcile(osc, cluster, templates)]
  /\ last.out.err.isNil
  /\ ref = Nil
  /\ sh = Boot(ShellLines(last.out.userData.val), << >>, "boot")

NextProvisionRun ==
  \/ ShSkip
  \/ ShIf
  \/ ShHereDoc
  \/ ShListFirst
  \/ ShListSecond
  \/ ShSimple
  \/ ShEnd

SpecProvisionRun == InitProvisionRun /\ [][NextProvisionRun]_vars

(***************************************************************************)
(* The update script is started: with the command and the arguments of the *)
(* InPlaceUpdateConfig a Reconcile call returned, or by hand with any      *)
(* arguments.                                                              *)
(***************************************************************************)
UpdateRequests ==
  {o \in Requests : /\ o.Purpose = OperatingSystemConfigPurposeReconcile
                    /\ o.Type = OSTypeGardenLinux
                    /\ o.Units = << >> /\ o.Files = << >>
                    /\ o.ProviderConfig = NoProviderConfig}
ArgLists == SeqsUpTo({"", "1312.0"}, MaxArgs)
\* the content of the File of a result that lies at path
ContentAt(files, path) == files[CHOOSE i \in 1..Len(files) : files[i].Path = path].Content

InitUpdateRun ==
  /\ templates = LoadTemplates
  /\ cluster \in ClusterStates
  /\ osc \in UpdateRequests
  /\ last = [op |-> "Reconcile", osc |-> osc, cluster |-> cluster, out |-> Reconcile(osc, cluster, templates)]
  /\ ref = Nil
  /\ LET cfg == last.out.inPlaceUpdateConfig.val
         script == ContentAt(last.out.files.val, cfg.OSUpdateCommand.val)
     IN  \/ sh = Boot(Lines(script), cfg.OSUpdateCommandArgs, "config")
         \/ \E argv \in ArgLists : sh = Boot(Lines(script), argv, "manual")

NextUpdateRun ==
  \/ ShSkip
  \/ ShIf
  \/ ShSet
  \/ ShExit
  \/ ShAssign
  \/ ShSimple
  \/ ShEnd

SpecUpdateRun == InitUpdateRun /\ [][NextUpdateRun]_vars

(***************************************************************************)
(* Reading a run.                                                          *)
(***************************************************************************)
Booted == sh.status # "none"
Trace == sh.trace
Finished == sh.status = "exited"
\* the places in the trace at which a command was run
RunsOf(cmd) == {i \in 1..Len(Trace) : Trace[i].cmd = cmd}
Failed(i) == Trace[i].status # 0
\* the commands whose status decides what runs next: the condition of an
\* if, and the command before a ||
IsGuard(e) == e.args[1] = "[" \/ e.cmd = "grep -sq \"^nfsd$\" /etc/modules"
SelfCheck == {"nslookup $(hostname)", "systemctl restart systemd-networkd"}

(***************************************************************************)
(* C9.  Original statement: in a run of the provisioning script only the   *)
(* network self-check may fail without aborting the script; the failure of *)
(* any other step (loading nfsd, enabling containerd, ...) aborts it, so   *)
(* that no later step runs.                                                *)
(***************************************************************************)
C9_OtherFailuresAbort ==
  Booted =>
    \A i \in 1..Len(Trace) :
      (Failed(i) /\ Trace[i].cmd \notin SelfCheck /\ ~IsGuard(Trace[i])) => i = Len(Trace)

(***************************************************************************)
(* C9.  As amended: the script sets no errexit, so no failure aborts it.   *)
(* A run ends only at the end of the script, and by then it has run, in    *)
(* this order and whatever failed before, the nfsd load, the self-check,   *)
(* daemon-reload, the enabling of containerd and of docker and the         *)
(* enabling of every declared unit in input order.  A failed self-check is *)
(* followed by the restart of the network service; the restart chained to  *)
(* an enable by && runs exactly when that enable succeeded.                *)
(***************************************************************************)
MustRun ==
  << "mkdir -p /etc/systemd/system/containerd.service.d",
     "chmod 0644 /etc/systemd/system/containerd.service.d/11-exec_config.conf",
     "modprobe nfsd",
     "nslookup $(hostname)",
     "systemctl daemon-reload",
     "systemctl enable containerd",
     "systemctl enable docker" >>
IsUnitEnable(e) == HasPrefix(e.cmd, "systemctl enable '")
IsEnable(e) == HasPrefix(e.cmd, "systemctl enable ")
FollowedBy(i, prefix) == i < Len(Trace) /\ HasPrefix(Trace[i + 1].cmd, prefix)

C9_NoFailureAborts ==
  Booted =>
    /\ Finished =>
         /\ sh.pc > Len(sh.prog)
         /\ sh.code = Trace[Len(Trace)].status
         /\ \A k \in 1..Len(MustRun) : Cardinality(RunsOf(MustRun[k])) = 1
         /\ \A k \in 1..(Len(MustRun) - 1) :
              MinOf(RunsOf(MustRun[k])) < MinOf(RunsOf(MustRun[k + 1]))
         /\ LET enables == SelectSeq(Trace, IsUnitEnable)
            IN  /\ Len(enables) = Len(osc.Units)
                /\ \A i \in 1..Len(enables) :
                     enables[i].cmd = "systemctl enable '" \o osc.Units[i].Name \o "'"
         /\ \A i \in 1..Len(Trace) :
              IsUnitEnable(Trace[i]) => i > MinOf(RunsOf("systemctl enable docker"))
         /\ \A i \in 1..Len(Trace) :
              IsEnable(Trace[i]) => (FollowedBy(i, "systemctl restart ") <=> ~Failed(i))
         /\ \A i \in RunsOf("nslookup $(hostname)") :
              FollowedBy(i, "systemctl restart systemd-networkd") <=> Failed(i)
    /\ ~sh.errexit

C9_Witness ==
  /\ Booted /\ Finished
  /\ osc.Units # << >>
  /\ \E i \in RunsOf("modprobe nfsd") :
       /\ Failed(i)
       /\ \E j \in RunsOf("systemctl daemon-reload") : j > i
       /\ \E j \in (i + 1)..Len(Trace) : IsUnitEnable(Trace[j])

(***************************************************************************)
(* C10.  In a run of the in-place-update script, reboot runs only right    *)
(* after gardenlinux-update was run with the one given version argument    *)
(* and succeeded.  Started with any number of arguments but one, the       *)
(* script exits with status 1 and runs neither.  Started from the          *)
(* InPlaceUpdateConfig of a Reconcile result it has exactly one argument,  *)
(* the osVersion or "" when that is unset, and never takes the usage exit. *)
(***************************************************************************)
IsUpdate(e) == Len(e.args) >= 2 /\ e.args[1] = "sudo" /\ e.args[2] = "gardenlinux-update"
IsReboot(e) == Len(e.args) >= 2 /\ e.args[1] = "sudo" /\ e.args[2] = "reboot"
IsUsage(e) == e.args[1] = "echo"

C10_UpdateBeforeReboot ==
  Booted =>
    /\ \A i \in 1..Len(Trace) :
         IsUpdate(Trace[i]) =>
           /\ Len(sh.argv) = 1
           /\ Trace[i].args = <<"sudo", "gardenlinux-update", sh.argv[1]>>
    /\ \A i \in 1..Len(Trace) :
         IsReboot(Trace[i]) =>
           /\ i > 1
           /\ IsUpdate(Trace[i - 1])
           /\ ~Failed(i - 1)
    /\ Len(sh.argv) # 1 =>
         /\ \A i \in 1..Len(Trace) : ~IsUpdate(Trace[i]) /\ ~IsReboot(Trace[i])
         /\ Finished => sh.code = 1
    /\ sh.origin = "config" =>
         /\ sh.argv = <<IF osc.OSVersion.isNil THEN "" ELSE osc.OSVersion.val>>
         /\ \A i \in 1..Len(Trace) : ~IsUsage(Trace[i])
         /\ Finished => \E i \in 1..Len(Trace) : IsUpdate(Trace[i])

C10_Witness ==
  /\ Booted /\ Finished
  /\ sh.origin = "config"
  /\ osc.OSVersion = Nil
  /\ Len(Trace) >= 2
  /\ IsReboot(Trace[Len(Trace)])
  /\ Trace[Len(Trace) - 1].args = <<"sudo", "gardenlinux-update", "">>

====
